---- MODULE Spec2Model ----
(***************************************************************************)
(* Activity log filter/pagination controller                               *)
(* (src/components/admin-panel/sections/ActivityLog/index.js) and the      *)
(* contribution-flow fragment documents                                    *)
(* (src/components/contribution-flow/graphql/fragments.js).                *)
(*                                                                         *)
(* A JavaScript string is a sequence of one-character strings, so that     *)
(* parseInt and split work on characters.  undefined and null are two      *)
(* one-element sequences whose element is no character of any string.      *)
(* A JavaScript object is a function from its keys to its values; an       *)
(* optional value is a sequence of length 0 or 1.                          *)
(***************************************************************************)
EXTENDS Integers, Sequences, FiniteSets, TLC

VARIABLES
  query,          \* router.query: route parameters and URL query parameters
  acct,           \* the account the API holds for accountSlug
  result,         \* what useQuery returns: loading, error, data
  executed,       \* the variables of the query execution in effect, if any
  view,           \* what the last render computed and closed over, if any
  renderDue,      \* router.query or the result changed since the last render
  effectPending,  \* the last render's effect has not run yet
  pending,        \* the router.push whose navigation has not completed, if any
  pushes,         \* corrective router.push calls since router.query last changed
  docs,           \* fragments.js: the fragment definitions of each document evaluated so far
  evaluated,      \* fragments.js: how many of its constants have been evaluated
  operation,      \* the operation that includes one exported document, if any
  path,           \* the chain of fragment spreads being resolved in the operation
  fragError       \* what resolving the operation's fragment spreads ran into

logVars == <<query, acct, result, executed, view, renderDue, effectPending, pending, pushes>>

fragVars == <<docs, evaluated, operation, path, fragError>>

vars == <<logVars, fragVars>>

---------------------------------------------------------------------------
(* Bounds of the model *)

MaxOffsetLen == 2
MaxSlugs == 2
MaxPushes == 2

---------------------------------------------------------------------------
(* JavaScript values *)

UNDEFINED == <<"<undefined>">>
NULL == <<"<null>">>

\* `!value` for a string, null or undefined
Falsy(v) == v \in {UNDEFINED, NULL, <<>>}

\* obj.k, undefined when obj has no key k
Get(obj, k) == IF k \in DOMAIN obj THEN obj[k] ELSE UNDEFINED

\* { ...a, ...b }
Spread(a, b) == [k \in DOMAIN a \cup DOMAIN b |-> IF k \in DOMAIN b THEN b[k] ELSE a[k]]

\* lodash omit(obj, keys)
omit(obj, keys) == [k \in DOMAIN obj \ keys |-> obj[k]]

\* lodash omitBy(obj, value => !value)
omitByFalsy(obj) == [k \in {j \in DOMAIN obj : ~Falsy(obj[j])} |-> obj[k]]

\* lodash isEmpty(obj)
isEmpty(obj) == DOMAIN obj = {}

IsDigit(c) == c \in {"0", "1", "2", "3", "4", "5", "6", "7", "8", "9"}

DigitVal(c) ==
  CASE c = "0" -> 0 [] c = "1" -> 1 [] c = "2" -> 2 [] c = "3" -> 3 [] c = "4" -> 4
    [] c = "5" -> 5 [] c = "6" -> 6 [] c = "7" -> 7 [] c = "8" -> 8 [] c = "9" -> 9

RECURSIVE TrimStart(_)
TrimStart(s) == IF s # <<>> /\ Head(s) = " " THEN TrimStart(Tail(s)) ELSE s

RECURSIVE DigitsPrefix(_)
DigitsPrefix(s) ==
  IF s # <<>> /\ IsDigit(Head(s)) THEN <<Head(s)>> \o DigitsPrefix(Tail(s)) ELSE <<>>

RECURSIVE DigitsValue(_, _)
DigitsValue(d, acc) ==
  IF d = <<>> THEN acc ELSE DigitsValue(Tail(d), 10 * acc + DigitVal(Head(d)))

\* parseInt(s) in radix 10: leading white space, an optional sign, then the longest
\* run of digits; NaN when there is none.  (No string of the model starts with
\* "0x", the one prefix that selects radix 16.)
parseInt(s) ==
  LET t == TrimStart(s)
      neg == t # <<>> /\ Head(t) = "-"
      u == IF t # <<>> /\ Head(t) \in {"-", "+"} THEN Tail(t) ELSE t
      d == DigitsPrefix(u)
  IN  IF d = <<>> THEN [nan |-> TRUE, val |-> 0]
      ELSE [nan |-> FALSE, val |-> IF neg THEN 0 - DigitsValue(d, 0) ELSE DigitsValue(d, 0)]

\* `n || 0`: NaN and 0 (and -0) are falsy
OrZero(n) == IF n.nan \/ n.val = 0 THEN 0 ELSE n.val

CommaAt(s) == {i \in 1..Len(s) : s[i] = ","}

Min(S) == CHOOSE x \in S : \A y \in S : x <= y

\* s.split(',')
RECURSIVE split(_)
split(s) ==
  IF CommaAt(s) = {} THEN <<s>>
  ELSE LET i == Min(CommaAt(s))
       IN  <<SubSeq(s, 1, i - 1)>> \o split(SubSeq(s, i + 1, Len(s)))

---------------------------------------------------------------------------
(* getQueryVariables *)

ACTIVITY_LIMIT == 10

CHILDREN_ACCOUNTS ==
  <<"_", "_", "C", "H", "I", "L", "D", "R", "E", "N", "_",
    "A", "C", "C", "O", "U", "N", "T", "S", "_", "_">>

HOSTED_ACCOUNTS ==
  <<"_", "_", "H", "O", "S", "T", "E", "D", "_",
    "A", "C", "C", "O", "U", "N", "T", "S", "_", "_">>

\* Filter keys of ActivityTypeFilter: one every account supports, one only a host
\* supports.
TYPE_EXPENSES == <<"E", "X", "P", "E", "N", "S", "E", "S">>
TYPE_HOST == <<"H", "O", "S", "T">>

\* The activity-type tags a filter key stands for.
ActivityTypesOfKey(key) ==
  CASE key = TYPE_EXPENSES -> {<<"E", "1">>, <<"E", "2">>}
    [] key = TYPE_HOST -> {<<"H", "1">>}
    [] OTHER -> {key}

\* getActivityTypeFilterValuesFromKey: null (no tags) for no key
getActivityTypeFilterValuesFromKey(key) ==
  IF Falsy(key) THEN [isNull |-> TRUE, tags |-> {}]
  ELSE [isNull |-> FALSE, tags |-> ActivityTypesOfKey(key)]

\* parseDateInterval: an unbounded interval for no period
parseDateInterval(period) ==
  IF Falsy(period) THEN [from |-> NULL, to |-> NULL]
  ELSE [from |-> <<"f">> \o period, to |-> <<"t">> \o period]

\* The account filters of getQueryVariables: filteredAccounts and the three flags,
\* each "true" or "undefined".
\* (Variant: the children sentinel forgets excludeParentAccount.)
AccountFiltersMutChildren(accountSlug, account) ==
  IF account = CHILDREN_ACCOUNTS
  THEN [isList |-> FALSE, items |-> <<[slug |-> accountSlug]>>,
        includeChildrenAccounts |-> "true", excludeParentAccount |-> "undefined",
        includeHostedAccounts |-> "undefined"]
  ELSE IF account = HOSTED_ACCOUNTS
  THEN [isList |-> FALSE, items |-> <<[slug |-> accountSlug]>>,
        includeChildrenAccounts |-> "undefined", excludeParentAccount |-> "undefined",
        includeHostedAccounts |-> "true"]
  ELSE IF ~Falsy(account)
  THEN [isList |-> TRUE, items |-> [i \in DOMAIN split(account) |-> [slug |-> split(account)[i]]],
        includeChildrenAccounts |-> "true", excludeParentAccount |-> "undefined",
        includeHostedAccounts |-> "undefined"]
  ELSE [isList |-> FALSE, items |-> <<[slug |-> accountSlug]>>,
        includeChildrenAccounts |-> "undefined", excludeParentAccount |-> "undefined",
        includeHostedAccounts |-> "undefined"]

\* (Variant: a list of slugs does not include their children.)
AccountFiltersMutNoChildren(accountSlug, account) ==
  IF account = CHILDREN_ACCOUNTS
  THEN [isList |-> FALSE, items |-> <<[slug |-> accountSlug]>>,
        includeChildrenAccounts |-> "true", excludeParentAccount |-> "true",
        includeHostedAccounts |-> "undefined"]
  ELSE IF account = HOSTED_ACCOUNTS
  THEN [isList |-> FALSE, items |-> <<[slug |-> accountSlug]>>,
        includeChildrenAccounts |-> "undefined", excludeParentAccount |-> "undefined",
        includeHostedAccounts |-> "true"]
  ELSE IF ~Falsy(account)
  THEN [isList |-> TRUE, items |-> [i \in DOMAIN split(account) |-> [slug |-> split(account)[i]]],
        includeChildrenAccounts |-> "undefined", excludeParentAccount |-> "undefined",
        includeHostedAccounts |-> "undefined"]
  ELSE [isList |-> FALSE, items |-> <<[slug |-> accountSlug]>>,
        includeChildrenAccounts |-> "undefined", excludeParentAccount |-> "undefined",
        includeHostedAccounts |-> "undefined"]

AccountFilters(accountSlug, account) ==
  IF account = CHILDREN_ACCOUNTS
  THEN [isList |-> FALSE, items |-> <<[slug |-> accountSlug]>>,
        includeChildrenAccounts |-> "true", excludeParentAccount |-> "true",
        includeHostedAccounts |-> "undefined"]
  ELSE IF account = HOSTED_ACCOUNTS
  THEN [isList |-> FALSE, items |-> <<[slug |-> accountSlug]>>,
        includeChildrenAccounts |-> "undefined", excludeParentAccount |-> "undefined",
        includeHostedAccounts |-> "true"]
  ELSE IF ~Falsy(account)
  THEN [isList |-> TRUE, items |-> [i \in DOMAIN split(account) |-> [slug |-> split(account)[i]]],
        includeChildrenAccounts |-> "true", excludeParentAccount |-> "undefined",
        includeHostedAccounts |-> "undefined"]
  ELSE [isList |-> FALSE, items |-> <<[slug |-> accountSlug]>>,
        includeChildrenAccounts |-> "undefined", excludeParentAccount |-> "undefined",
        includeHostedAccounts |-> "undefined"]

getQueryVariables(accountSlug, routerq) ==
  LET routerQuery == omit(routerq, {"slug", "section"})
      offset == OrZero(parseInt(Get(routerQuery, "offset")))
      interval == parseDateInterval(Get(routerQuery, "period"))
      filters == AccountFilters(accountSlug, Get(routerQuery, "account"))
  IN  [accountSlug |-> accountSlug,
       dateFrom |-> interval.from,
       dateTo |-> interval.to,
       limit |-> ACTIVITY_LIMIT,
       offset |-> offset,
       type |-> getActivityTypeFilterValuesFromKey(Get(routerQuery, "type")),
       account |-> [isList |-> filters.isList, items |-> filters.items],
       includeChildrenAccounts |-> filters.includeChildrenAccounts,
       excludeParentAccount |-> filters.excludeParentAccount,
       includeHostedAccounts |-> filters.includeHostedAccounts]

---------------------------------------------------------------------------
(* The query result and what the component renders from it *)

AccountSlug == <<"a", "c", "m", "e">>

\* The route's own parameters, which Next.js puts in router.query beside the URL's.
RouteParams == [slug |-> AccountSlug, section |-> <<"l", "o", "g">>]

Accounts ==
  {[type |-> "INDIVIDUAL", isHost |-> FALSE], [type |-> "ORGANIZATION", isHost |-> TRUE]}

\* data?.account
AccountOf(data) == IF data = <<>> THEN <<>> ELSE data[1].account

\* data?.activities?.nodes is there
HasNodes(data) ==
  /\ data # <<>>
  /\ data[1].activities # <<>>
  /\ data[1].activities[1].nodes

\* data?.activities?.totalCount, as an optional number
TotalCountOf(data) ==
  IF data = <<>> \/ data[1].activities = <<>> THEN <<>>
  ELSE <<data[1].activities[1].totalCount>>

\* The chain of conditionals that picks the result area's view.
\* (Variant: the loading placeholder wins over the error.)
ResultViewMutLoadingFirst(res) ==
  IF res.loading THEN "loading"
  ELSE IF res.error THEN "error"
  ELSE IF ~HasNodes(res.data) THEN "mustBeAdmin"
  ELSE IF TotalCountOf(res.data)[1] = 0 THEN "empty"
  ELSE "list"

ResultView(res) ==
  IF res.error THEN "error"
  ELSE IF res.loading THEN "loading"
  ELSE IF ~HasNodes(res.data) THEN "mustBeAdmin"
  ELSE IF TotalCountOf(res.data)[1] = 0 THEN "empty"
  ELSE "list"

\* data?.activities?.totalCount > ACTIVITY_LIMIT (undefined > 10 is false)
\* (Variant: >= in place of >.)
showPaginationMutAtLeast(data) ==
  TotalCountOf(data) # <<>> /\ TotalCountOf(data)[1] >= ACTIVITY_LIMIT

showPagination(data) ==
  TotalCountOf(data) # <<>> /\ TotalCountOf(data)[1] > ACTIVITY_LIMIT

\* The Pagination component's number of pages: total / limit, rounded up.
PaginationPages(total, limit) == (total + limit - 1) \div limit

\* The Pagination element of the render, if any: its props and its page count.
PaginationOf(data, offset) ==
  IF showPagination(data)
  THEN <<[offset |-> offset, total |-> TotalCountOf(data)[1], limit |-> ACTIVITY_LIMIT,
          pages |-> PaginationPages(TotalCountOf(data)[1], ACTIVITY_LIMIT)]>>
  ELSE <<>>

\* useQuery(activityLogQuery, {variables, fetchPolicy: 'network-only'}): a new
\* execution when the variables differ from those of the execution in effect (and on
\* mount), with no data while it loads; the client library may or may not still
\* report the previous execution's error meanwhile.
useQuery(res, exec, variables, staleError) ==
  IF exec = <<variables>> THEN res
  ELSE [loading |-> TRUE, error |-> staleError /\ res.error, data |-> <<>>]

\* The filters an account supports.
SupportedFilters(account) ==
  IF account.isHost THEN {TYPE_EXPENSES, TYPE_HOST} ELSE {TYPE_EXPENSES}

\* isSupportedActivityTypeFilter: no filter is always supported
isSupportedActivityTypeFilter(account, value) ==
  Falsy(value) \/ value \in SupportedFilters(account)

NoChanges == [k \in {} |-> NULL]

\* (Variants: never a change; a change whatever the filter.)
getChangesThatRequireUpdateMutNever(account, queryParams) == NoChanges

getChangesThatRequireUpdateMutAlways(account, queryParams) ==
  IF account = <<>> THEN NoChanges ELSE [type |-> NULL]

getChangesThatRequireUpdate(account, queryParams) ==
  IF account = <<>> THEN NoChanges
  ELSE IF ~isSupportedActivityTypeFilter(account[1], Get(queryParams, "type"))
       THEN [type |-> NULL]
       ELSE NoChanges

\* The query handleUpdateFilters pushes.
\* (Variant: falsy values are not stripped.)
handleUpdateFiltersMutNoStrip(routerQuery, queryParams) == Spread(routerQuery, queryParams)

handleUpdateFilters(routerQuery, queryParams) == omitByFalsy(Spread(routerQuery, queryParams))

\* The dependencies [data?.account, routerQuery] of the effect: routerQuery is a new
\* object of every render (omit returns a copy), so they never compare equal.
EffectDepsChanged == TRUE

\* What one render of ActivityLog computes.
RenderView(routerq, res, variables) ==
  LET routerQuery == omit(routerq, {"slug", "section"})
      offset == OrZero(parseInt(Get(routerQuery, "offset")))
  IN  [routerQuery |-> routerQuery,
       result |-> res,
       variables |-> variables,
       shown |-> ResultView(res),
       pagination |-> PaginationOf(res.data, offset)]

---------------------------------------------------------------------------
(* The fragment documents of contribution-flow/graphql/fragments.js.  A document  *)
(* is a template literal: the fragment it defines, the fragments that one spreads *)
(* and the documents it interpolates, whose text it then holds.                   *)

\* (Variant: OrderSuccessFragment without ${orderSuccessHostFragment}.)
orderSuccessFragmentMutNoInterpolation ==
  [defines |-> "OrderSuccessFragment", spreads |-> {"OrderSuccessHostFragment"},
   interpolates |-> {}]

contributionFlowHostFieldsFragment ==
  [defines |-> "ContributionFlowHostFields", spreads |-> {}, interpolates |-> {}]

contributionFlowAccountFieldsFragment ==
  [defines |-> "ContributionFlowAccountFields", spreads |-> {"ContributionFlowHostFields"},
   interpolates |-> {"contributionFlowHostFieldsFragment"}]

orderSuccessHostFragment ==
  [defines |-> "OrderSuccessHostFragment", spreads |-> {}, interpolates |-> {}]

orderSuccessFragment ==
  [defines |-> "OrderSuccessFragment", spreads |-> {"OrderSuccessHostFragment"},
   interpolates |-> {"orderSuccessHostFragment"}]

orderResponseFragment ==
  [defines |-> "OrderResponseFragment", spreads |-> {"OrderSuccessFragment"},
   interpolates |-> {"orderSuccessFragment"}]

\* The module's constants, in the order the module evaluates them.
FragmentModule ==
  <<[name |-> "contributionFlowHostFieldsFragment", doc |-> contributionFlowHostFieldsFragment, exported |-> FALSE],
    [name |-> "contributionFlowAccountFieldsFragment", doc |-> contributionFlowAccountFieldsFragment, exported |-> TRUE],
    [name |-> "orderSuccessHostFragment", doc |-> orderSuccessHostFragment, exported |-> FALSE],
    [name |-> "orderSuccessFragment", doc |-> orderSuccessFragment, exported |-> TRUE],
    [name |-> "orderResponseFragment", doc |-> orderResponseFragment, exported |-> TRUE]>>

\* The fragments that fragment f spreads, as its definition in the module says.
SpreadsOf(f) ==
  UNION {FragmentModule[i].doc.spreads : i \in {k \in DOMAIN FragmentModule : FragmentModule[k].doc.defines = f}}

NoDocuments == [n \in {} |-> {}]

\* The module evaluates its next constant: the document holds the fragment its
\* template defines and the definitions of the documents it interpolates, which
\* must be constants evaluated before it.
EvalFragment ==
  /\ evaluated < Len(FragmentModule)
  /\ fragError = "none"
  /\ LET c == FragmentModule[evaluated + 1]
     IN  IF c.doc.interpolates \subseteq DOMAIN docs
         THEN /\ docs' = [n \in DOMAIN docs \cup {c.name} |->
                            IF n = c.name
                            THEN {c.doc.defines} \cup UNION {docs[d] : d \in c.doc.interpolates}
                            ELSE docs[n]]
              /\ fragError' = fragError
         ELSE /\ docs' = docs
              /\ fragError' = "not a document"
  /\ evaluated' = evaluated + 1
  /\ UNCHANGED <<operation, path>>
  /\ UNCHANGED logVars

\* An operation includes one exported document and spreads its fragment.
ComposeOperation ==
  /\ evaluated = Len(FragmentModule)
  /\ fragError = "none"
  /\ operation = <<>>
  /\ \E i \in DOMAIN FragmentModule :
       /\ FragmentModule[i].exported
       /\ operation' = <<[includes |-> FragmentModule[i].name,
                          spreads |-> FragmentModule[i].doc.defines,
                          definitions |-> docs[FragmentModule[i].name]]>>
  /\ path' = <<>>
  /\ UNCHANGED <<docs, evaluated, fragError>>
  /\ UNCHANGED logVars

\* Resolving the operation's spreads: one more spread of the chain is looked up in
\* the operation's definitions.
FollowSpread ==
  /\ operation # <<>>
  /\ fragError = "none"
  /\ \E f \in (IF path = <<>> THEN {operation[1].spreads} ELSE SpreadsOf(path[Len(path)])) :
       IF f \notin operation[1].definitions
       THEN fragError' = "unknown fragment" /\ path' = path
       ELSE IF \E i \in DOMAIN path : path[i] = f
       THEN fragError' = "cycle" /\ path' = path
       ELSE fragError' = fragError /\ path' = Append(path, f)
  /\ UNCHANGED <<docs, evaluated, operation>>
  /\ UNCHANGED logVars

---------------------------------------------------------------------------
(* Inputs *)

Opt(S) == {<<>>} \cup {<<x>> : x \in S}

\* router.query for a URL with the given optional parameters
MkQuery(o, p, t, a) ==
  LET keys == (IF o = <<>> THEN {} ELSE {"offset"}) \cup (IF p = <<>> THEN {} ELSE {"period"})
              \cup (IF t = <<>> THEN {} ELSE {"type"}) \cup (IF a = <<>> THEN {} ELSE {"account"})
      url == [k \in keys |-> CASE k = "offset" -> o[1] [] k = "period" -> p[1]
                               [] k = "type" -> t[1] [] k = "account" -> a[1]]
  IN  Spread(url, RouteParams)

OffsetAlphabet == {"2", "0", "-", "a", " "}

OffsetStrings ==
  UNION {[1..n -> OffsetAlphabet] : n \in 0..MaxOffsetLen}
    \cup {<<"2", "0">>, <<"a", "b", "c">>, <<"-", "5">>}

Slugs == {<<"a">>, <<"b", "c">>}

SlugLists == UNION {[1..n -> Slugs] : n \in 1..MaxSlugs}

RECURSIVE Join(_)
Join(list) ==
  IF Len(list) = 1 THEN list[1] ELSE list[1] \o <<",">> \o Join(Tail(list))

PERIOD == <<"P">>

TypeValues == {<<>>, TYPE_EXPENSES, TYPE_HOST, <<"z">>}

\* URLs for the controller: a few values of each parameter.
InitQueries ==
  {MkQuery(o, p, t, a) :
     o \in Opt({<<>>, <<"2", "0">>}), p \in Opt({PERIOD}), t \in Opt(TypeValues),
     a \in Opt({CHILDREN_ACCOUNTS})}

\* URLs for getQueryVariables: every offset string with a few account values, and
\* every account value with a few offsets.
InitQueriesWide ==
  {MkQuery(o, <<>>, t, a) :
     o \in Opt(OffsetStrings), t \in Opt({TYPE_HOST}), a \in Opt({HOSTED_ACCOUNTS})}
    \cup {MkQuery(o, p, <<>>, a) :
            o \in Opt({<<"2", "0">>}), p \in Opt({PERIOD}),
            a \in Opt({<<>>, CHILDREN_ACCOUNTS, HOSTED_ACCOUNTS} \cup {Join(l) : l \in SlugLists})}

TotalCounts == {0, 5, 10, 11, 25}

\* What the API may answer for the account.
Responses(a) ==
  {[error |-> FALSE, data |-> <<[account |-> <<a>>, activities |-> <<[nodes |-> TRUE, totalCount |-> t]>>]>>] :
      t \in TotalCounts}
    \cup {[error |-> FALSE, data |-> <<[account |-> <<a>>, activities |-> <<>>]>>],
          [error |-> FALSE, data |-> <<>>],
          [error |-> TRUE, data |-> <<>>],
          [error |-> TRUE, data |-> <<[account |-> <<a>>, activities |-> <<[nodes |-> TRUE, totalCount |-> 25]>>]>>]}

\* What the user can pick in ActivityFilters: one filter set to a value the loaded
\* account offers.
FilterChoices(account) ==
  {[type |-> TYPE_EXPENSES], [type |-> NULL], [period |-> PERIOD], [account |-> HOSTED_ACCOUNTS]}
    \cup (IF account # <<>> /\ account[1].isHost THEN {[type |-> TYPE_HOST]} ELSE {})

---------------------------------------------------------------------------
(* The state machine *)

InitRest ==
  /\ acct \in Accounts
  /\ result = [loading |-> FALSE, error |-> FALSE, data |-> <<>>]
  /\ executed = <<>>
  /\ view = <<>>
  /\ renderDue = TRUE
  /\ effectPending = FALSE
  /\ pending = <<>>
  /\ pushes = 0
  /\ docs = NoDocuments
  /\ evaluated = 0
  /\ operation = <<>>
  /\ path = <<>>
  /\ fragError = "none"

Init == query \in InitQueries /\ InitRest

InitWide == query \in InitQueriesWide /\ InitRest

\* One render of ActivityLog, due or not (React runs the previous render's effect
\* first).
Render ==
  /\ ~effectPending
  /\ renderDue' = FALSE
  /\ \E staleError \in BOOLEAN :
       LET variables == getQueryVariables(AccountSlug, query)
           res == useQuery(result, executed, variables, staleError)
       IN  /\ result' = res
           /\ executed' = <<variables>>
           /\ view' = <<RenderView(query, res, variables)>>
  /\ effectPending' = EffectDepsChanged
  /\ UNCHANGED <<query, acct, pending, pushes>>
  /\ UNCHANGED fragVars

\* The API answers the execution in effect.
QueryComplete ==
  /\ result.loading
  /\ \E r \in Responses(acct) :
       result' = [loading |-> FALSE, error |-> r.error, data |-> r.data]
  /\ renderDue' = TRUE
  /\ UNCHANGED <<query, acct, executed, view, effectPending, pending, pushes>>
  /\ UNCHANGED fragVars

\* The effect of the last render: reset type if not supported by the account.  A
\* router.push replaces the navigation in flight.
Effect ==
  /\ effectPending
  /\ LET routerQuery == view[1].routerQuery
         changesThatRequireUpdate ==
           getChangesThatRequireUpdate(AccountOf(view[1].result.data), routerQuery)
     IN  IF ~isEmpty(changesThatRequireUpdate)
         THEN /\ pushes < MaxPushes
              /\ pending' = <<[kind |-> "corrective",
                               query |-> handleUpdateFilters(routerQuery,
                                           Spread(routerQuery, changesThatRequireUpdate))]>>
              /\ pushes' = pushes + 1
         ELSE UNCHANGED <<pending, pushes>>
  /\ effectPending' = FALSE
  /\ UNCHANGED <<query, acct, result, executed, view, renderDue>>
  /\ UNCHANGED fragVars

\* ActivityFilters onChange: queryParams => handleUpdateFilters({...queryParams, offset: null})
UserChange ==
  /\ view # <<>>
  /\ \E c \in FilterChoices(AccountOf(view[1].result.data)) :
       LET routerQuery == view[1].routerQuery
           queryParams == Spread(routerQuery, c)
       IN  pending' = <<[kind |-> "user",
                         query |-> handleUpdateFilters(routerQuery,
                                     Spread(queryParams, [offset |-> NULL]))]>>
  /\ UNCHANGED <<query, acct, result, executed, view, renderDue, effectPending, pushes>>
  /\ UNCHANGED fragVars

\* The navigation in flight completes: router.query is the pushed query and the
\* route's parameters.
NavComplete ==
  /\ pending # <<>>
  /\ query' = Spread(pending[1].query, RouteParams)
  /\ pending' = <<>>
  /\ pushes' = 0
  /\ renderDue' = TRUE
  /\ UNCHANGED <<acct, result, executed, view, effectPending>>
  /\ UNCHANGED fragVars

Next == Render \/ QueryComplete \/ Effect \/ UserChange \/ NavComplete

Spec == Init /\ [][Next]_vars

\* The component on any URL, without the user's filter changes.
NextQuery == Render \/ QueryComplete \/ Effect \/ NavComplete

SpecQuery == InitWide /\ [][NextQuery]_vars

\* The fragment module and an operation that uses it, in the application before the
\* activity log renders.
NextFragments == EvalFragment \/ ComposeOperation \/ FollowSpread

SpecFragments == Init /\ [][NextFragments]_vars

---------------------------------------------------------------------------
(* Properties *)

Rendered == view # <<>>

ViewAccount == AccountOf(view[1].result.data)

ViewType == Get(view[1].routerQuery, "type")

\* The effect of the last render runs in this step.
EffectRuns == effectPending /\ ~effectPending'

\* C1: from a URL whose type the loaded account does not support, the controller
\* issues exactly one corrective router.push: there is never a second corrective
\* push while router.query still holds the unsupported value.
C1_AtMostOneCorrectivePush == pushes <= 1

\* C2: when type is absent, or supported by the loaded account, a run of the
\* reconciliation effect finds no change to make and issues no navigation.
C2_NoNavigationWhenSupported ==
  [][(/\ EffectRuns
      /\ \/ ViewType \in {UNDEFINED, <<>>}
         \/ ViewAccount # <<>> /\ ViewType \in SupportedFilters(ViewAccount[1]))
     => /\ isEmpty(getChangesThatRequireUpdate(ViewAccount, view[1].routerQuery))
        /\ pending' = pending
        /\ pushes' = pushes]_vars

\* The effect has run on a loaded account whose URL selects a filter it supports,
\* and no navigation was issued.
C2_Witness ==
  /\ Rendered /\ ~effectPending
  /\ ViewAccount # <<>>
  /\ ViewType = TYPE_EXPENSES
  /\ Get(query, "type") = TYPE_EXPENSES
  /\ pending = <<>> /\ pushes = 0

\* C3 as stated: whenever an account is loaded, the type filter of the URL is one
\* the account supports, or is absent.
C3_TypeAlwaysSupported ==
  AccountOf(result.data) # <<>>
    => \/ Get(query, "type") \in {UNDEFINED, <<>>}
       \/ Get(query, "type") \in SupportedFilters(AccountOf(result.data)[1])

\* No render is due, the last render's effect has run, and no navigation is in
\* flight.
Settled == Rendered /\ ~renderDue /\ ~effectPending /\ pending = <<>>

\* C3 as amended: whenever an account is loaded and the controller is settled, the
\* type filter of the URL is one the account supports, or is absent.
C3_TypeSupportedWhenSettled ==
  (Settled /\ AccountOf(result.data) # <<>>)
    => \/ Get(query, "type") \in {UNDEFINED, <<>>}
       \/ Get(query, "type") \in SupportedFilters(AccountOf(result.data)[1])

\* Settled on a loaded account that is no host, with the other filters in the URL.
C3_Witness ==
  /\ Settled
  /\ AccountOf(result.data) # <<>>
  /\ ~AccountOf(result.data)[1].isHost
  /\ "type" \notin DOMAIN query
  /\ Get(query, "offset") = <<"2", "0">>

SingleTarget == [isList |-> FALSE, items |-> <<[slug |-> AccountSlug]>>]

\* C4: the sentinel __CHILDREN_ACCOUNTS__ sets includeChildrenAccounts and
\* excludeParentAccount and not includeHostedAccounts; __HOSTED_ACCOUNTS__ sets
\* includeHostedAccounts only; no account parameter sets no flag; in all three the
\* account variable is the single target account.
C4_SentinelFlags ==
  Rendered =>
    LET a == Get(view[1].routerQuery, "account")
        v == view[1].variables
        flags == <<v.includeChildrenAccounts, v.excludeParentAccount, v.includeHostedAccounts>>
    IN  /\ a = CHILDREN_ACCOUNTS
             => flags = <<"true", "true", "undefined">> /\ v.account = SingleTarget
        /\ a = HOSTED_ACCOUNTS
             => flags = <<"undefined", "undefined", "true">> /\ v.account = SingleTarget
        /\ a = UNDEFINED
             => flags = <<"undefined", "undefined", "undefined">> /\ v.account = SingleTarget

\* A render of a URL whose account parameter is __CHILDREN_ACCOUNTS__.
C4_Witness ==
  /\ Rendered
  /\ Get(view[1].routerQuery, "account") = CHILDREN_ACCOUNTS
  /\ view[1].variables.accountSlug = AccountSlug

\* C5: for an account parameter that is a comma-separated list of slugs, the account
\* variable is the list of {slug} objects of the same slugs in the same order,
\* includeChildrenAccounts is set and the two other flags are not.
C5_SlugList ==
  Rendered =>
    \A l \in SlugLists :
      Get(view[1].routerQuery, "account") = Join(l)
        => LET v == view[1].variables
           IN  /\ v.account.isList
               /\ Len(v.account.items) = Len(l)
               /\ \A i \in 1..Len(l) : v.account.items[i] = [slug |-> l[i]]
               /\ v.includeChildrenAccounts = "true"
               /\ v.includeHostedAccounts = "undefined"
               /\ v.excludeParentAccount = "undefined"

\* A render of a URL whose account parameter lists two slugs.
C5_Witness ==
  /\ Rendered
  /\ Get(view[1].routerQuery, "account") = <<"b", "c", ",", "a">>
  /\ Len(view[1].variables.account.items) = 2

AllDigits(s) == s # <<>> /\ \A i \in 1..Len(s) : IsDigit(s[i])

NoDigit(s) == \A i \in 1..Len(s) : ~IsDigit(s[i])

RECURSIVE DecimalOf(_)
DecimalOf(s) ==
  IF s = <<>> THEN 0 ELSE 10 * DecimalOf(SubSeq(s, 1, Len(s) - 1)) + DigitVal(s[Len(s)])

\* C6: the offset variable is never negative; it is 0 for an absent or empty offset
\* parameter and for one with no digit in it, and the number for one written in
\* digits.
C6_OffsetNonNegative ==
  Rendered =>
    LET s == Get(view[1].routerQuery, "offset")
        o == view[1].variables.offset
    IN  /\ o >= 0
        /\ s \in {UNDEFINED, <<>>} => o = 0
        /\ (s # UNDEFINED /\ NoDigit(s)) => o = 0
        /\ (s # UNDEFINED /\ AllDigits(s)) => o = DecimalOf(s)

\* C7: the query asks for 10 items, and the pagination control is rendered exactly
\* when the result's totalCount is more than 10, with the pages that total and a
\* limit of 10 give: 3 pages for 25, no control for 5 or for no data.
C7_Pagination ==
  Rendered =>
    LET d == view[1].result.data
        counted == d # <<>> /\ d[1].activities # <<>>
        total == d[1].activities[1].totalCount
        p == view[1].pagination
    IN  /\ view[1].variables.limit = 10
        /\ p # <<>> <=> (counted /\ total > 10)
        /\ p # <<>> => /\ p[1].total = total /\ p[1].limit = 10
                       /\ p[1].pages * 10 >= total
                       /\ (p[1].pages - 1) * 10 < total
        /\ (counted /\ total = 25) => (p # <<>> /\ p[1].pages = 3)
        /\ (counted /\ total = 5) => p = <<>>

\* A render of a result of 25 activities.
C7_Witness ==
  /\ Rendered
  /\ ~view[1].result.loading
  /\ TotalCountOf(view[1].result.data) = <<25>>

\* What is reached from the fragments of S in at most n spreads, S excluded.
RECURSIVE SpreadClosure(_, _)
SpreadClosure(S, n) ==
  IF n = 0 THEN {}
  ELSE LET direct == UNION {SpreadsOf(f) : f \in S}
       IN  direct \cup SpreadClosure(direct, n - 1)

\* Every fragment that f depends on, directly or transitively.
DependenciesOf(f) == SpreadClosure({f}, Len(FragmentModule))

\* C8: an operation that includes only an exported fragment document holds the
\* definition of every fragment that document's fragment depends on, directly or
\* transitively, so that resolving its spreads meets no undefined fragment, and no
\* fragment depends on itself; every interpolation is of a document defined before.
C8_FragmentsClosed ==
  /\ fragError = "none"
  /\ operation # <<>>
       => /\ {operation[1].spreads} \cup DependenciesOf(operation[1].spreads)
               \subseteq operation[1].definitions
          /\ operation[1].spreads \notin DependenciesOf(operation[1].spreads)
  /\ \A i \in DOMAIN path : \A j \in DOMAIN path : path[i] = path[j] => i = j

\* Resolving OrderResponseFragment has reached OrderSuccessHostFragment, which it
\* depends on through OrderSuccessFragment only.
C8_Witness ==
  /\ operation # <<>>
  /\ operation[1].includes = "orderResponseFragment"
  /\ path = <<"OrderResponseFragment", "OrderSuccessFragment", "OrderSuccessHostFragment">>

\* The view the chain of conditionals should pick for result r.
ExpectedView(r) ==
  CASE r.error -> "error"
    [] ~r.error /\ r.loading -> "loading"
    [] ~r.error /\ ~r.loading /\ (r.data = <<>> \/ r.data[1].activities = <<>>) -> "mustBeAdmin"
    [] OTHER -> IF r.data[1].activities[1].nodes
                THEN IF r.data[1].activities[1].totalCount = 0 THEN "empty" ELSE "list"
                ELSE "mustBeAdmin"

\* C9: the result area shows the one view the query result determines (error first,
\* then loading, then the admin message, then the empty message, then the list), and
\* a query execution starts only when the query variables change or on mount, never
\* because of an error or an empty result.
C9_ViewFromResult ==
  /\ [](Rendered => view[1].shown = ExpectedView(view[1].result))
  /\ [][(result'.loading /\ ~result.loading)
          => (executed = <<>> \/ executed' # executed)]_vars

\* A render of an error while a new execution loads.
C9_Witness ==
  /\ Rendered
  /\ view[1].result.error
  /\ view[1].result.loading
  /\ view[1].shown = "error"

FilterKeys == {"offset", "period", "account"}

====
